---- MODULE Spec2Model ----
(***************************************************************************)
(* Model of enhanced-abort-controller: EnhancedAbortController,            *)
(* EnhancedAbortSignal and AbortRegistration over the platform's one-shot  *)
(* AbortController/AbortSignal, with the timer queue and the microtask     *)
(* queue of the single-threaded event loop.                                *)
(*                                                                         *)
(* The operations are pure state transformers over a record `st` (the      *)
(* heap); an action applies one public operation as a whole, every         *)
(* callback it invokes synchronously included.                             *)
(***************************************************************************)
EXTENDS Integers, Sequences, FiniteSets, TLC

\* ------------------------------------------------------------------ bounds
\* objects a run allocates: native signals, registrations and promises
MaxHeap == 3
\* the same, where signals are combined and linked
MaxLinkHeap == 8
\* the same, where the timers are left to fire
MaxFairHeap == 2
\* the same, where listeners register and unregister while a signal fires
MaxNestHeap == 3
\* controllers with a timer pending at once
MaxTimers == 1
\* unregister()/dispose() calls made on one registration
MaxUnregCalls == 2

\* ------------------------------------------------------------------ values
Undefined == "undefined"
\* the DOMException the platform stores when abort() is given no reason
AbortErr == "AbortError"
\* reasons a caller passes to abort(reason?)
CallerReasons == {Undefined, "r1"}
\* the reason a listener passes when it calls abort(reason) itself
ListenerReason == "r2"
\* delays given to abortAfter(ms); when a timer comes due is left open
Delays == {0, 100}

VARIABLES
    srcs,        \* native AbortSignals: [aborted, reason, listeners], with the
                 \* _canBeAborted field of the EnhancedAbortSignal around
                 \* each (canBeAborted), the history of the callbacks invoked
                 \* for each (fired), of the first reason an abort gave it
                 \* (first), of what made it (made) and of the signals it
                 \* was combined or linked from (inputs)
    ctls,        \* EnhancedAbortControllers: [src, signal, timeoutId,
                 \* disposed], src the signal of the field controller and
                 \* signal the one the field _signal wraps, with
                 \* the history of what dispose() found (atDispose) and of
                 \* the signals tryReset() discarded (dropped) and, where
                 \* the timers are followed, of the timer dispose() found
                 \* pending (hadTimer) and of the timer an abortAfter call
                 \* cancelled (replaced), of the link that aborted it (via),
                 \* of the timer tryReset() found pending (resetTimer) and
                 \* of the linked signals aborted at a tryReset() (atReset)
    regs,        \* AbortRegistrations and the callback each was made for,
                 \* with the history of what the callback found (seen)
    timers,      \* pending setTimeout callbacks
    promises,    \* promises returned by whenAborted: [sig, state, reg], with
                 \* the history of the signal's state at the read (atRead)
    microtasks,  \* the microtask queue
    thrown       \* what the last throwIfAborted call did

vars == <<srcs, ctls, regs, timers, promises, microtasks, thrown>>

\* no throwIfAborted call yet
NoThrow == [sig |-> 0, arg |-> Undefined, name |-> "", message |-> ""]

\* ----------------------------------------------------------------- helpers
Contains(q, x) == \E i \in 1..Len(q) : q[i] = x

Remove(q, x) == SelectSeq(q, LAMBDA y : y # x)

Count(q, x) == Cardinality({i \in 1..Len(q) : q[i] = x})

Cur ==
    [srcs |-> srcs, ctls |-> ctls, regs |-> regs, timers |-> timers,
     promises |-> promises, microtasks |-> microtasks, thrown |-> thrown]

Commit(st) ==
    /\ srcs' = st.srcs
    /\ ctls' = st.ctls
    /\ regs' = st.regs
    /\ timers' = st.timers
    /\ promises' = st.promises
    /\ microtasks' = st.microtasks
    /\ thrown' = st.thrown

\* a callback handed to register: what its body does when invoked
NoopCb == [k |-> "noop", a |-> 0, r |-> Undefined]

AbortCb(c, r) == [k |-> "abort", a |-> c, r |-> r]

ResolveCb(p) == [k |-> "resolve", a |-> p, r |-> Undefined]

\* () => registration.unregister(), for the registration that is or will be
\* the r-th one made; nothing happens while it has not been made
UnregisterCb(r) == [k |-> "unreg", a |-> r, r |-> Undefined]

\* () => signal.register(() => {}) on signal s
RegisterCb(s) == [k |-> "reg", a |-> s, r |-> Undefined]

\* () => controller.abort() on the platform controller of signal s
NativeAbortCb(s) == [k |-> "nabort", a |-> s, r |-> Undefined]

\* ------------------------------------------------- platform AbortController
RECURSIVE NativeAbort(_, _, _)
RECURSIVE Dispatch(_, _, _)
RECURSIVE Callback(_, _)
RECURSIVE ControllerAbort(_, _, _)
RECURSIVE Unregister(_, _)
RECURSIVE Register(_, _, _, _)

\* new AbortController(): a fresh, not aborted signal without listeners
NewSource(st) ==
    [st EXCEPT !.srcs = Append(@, [aborted |-> FALSE, reason |-> Undefined,
                                    listeners |-> <<>>,
                                    canBeAborted |-> TRUE, fired |-> <<>>,
                                    first |-> Undefined, made |-> "new",
                                    inputs |-> {}])]

\* clearTimeout(id) of the platform
NativeClearTimeout(st, id) ==
    [st EXCEPT !.timers = @ \ {id}]

\* the handle setTimeout(() => this.abort(), ms) returns for controller c: a
\* new one, <<c, n, ms>> with the least n no pending timer and no timeoutId
\* of c holds
FreshTimerId(st, c, ms) ==
    LET used == {t[2] : t \in {u \in st.timers : u[1] = c}}
                    \cup {st.ctls[c].timeoutId[2]}
    IN  <<c, CHOOSE n \in 1..(Cardinality(used) + 1) :
                 n \notin used /\ \A m \in 1..(n - 1) : m \in used, ms>>

\* history: the registration of linkSignals whose callback is the first to
\* call abort() on controller c while c can still be aborted
NoteVia(st, c, r) ==
    IF /\ st.regs[r].own = "link" /\ st.ctls[c].via = 0
       /\ ~st.ctls[c].disposed /\ ~st.srcs[st.ctls[c].src].aborted
    THEN [st EXCEPT !.ctls[c].via = r]
    ELSE st

\* history: what the isAborted and reason getters of signal s give a callback
\* that is being invoked
Seen(st, s) == <<st.srcs[s].aborted, st.srcs[s].reason>>

\* mutant of Callback: the listener disposes its registration after the
\* callback has run
Callback_Disposes(st, r) ==
    LET cb == st.regs[r].cb
        st1 == [st EXCEPT !.srcs[st.regs[r].sig].fired = Append(@, r),
                          !.regs[r].seen = Seen(st, st.regs[r].sig),
                          !.regs[r].disposed = TRUE]
    IN  CASE cb.k = "noop" -> st1
          [] cb.k = "abort" -> ControllerAbort(NoteVia(st1, cb.a, r), cb.a, cb.r)
          [] cb.k = "nabort" -> NativeAbort(st1, cb.a, cb.r)
          [] cb.k = "resolve" -> [st1 EXCEPT !.promises[cb.a].state = "resolved"]
          [] cb.k = "unreg" ->
                 IF cb.a \in 1..Len(st1.regs)
                 THEN Unregister([st1 EXCEPT !.regs[cb.a].ncalls = @ + 1], cb.a)
                 ELSE st1
          [] cb.k = "reg" -> Register(st1, cb.a, NoopCb, "user")

\* the body of a callback given to register
Callback(st, r) ==
    LET cb == st.regs[r].cb
        st1 == [st EXCEPT !.srcs[st.regs[r].sig].fired = Append(@, r),
                          !.regs[r].seen = Seen(st, st.regs[r].sig)]
    IN  CASE cb.k = "noop" -> st1
          [] cb.k = "abort" -> ControllerAbort(NoteVia(st1, cb.a, r), cb.a, cb.r)
          [] cb.k = "nabort" -> NativeAbort(st1, cb.a, cb.r)
          [] cb.k = "resolve" -> [st1 EXCEPT !.promises[cb.a].state = "resolved"]
          [] cb.k = "unreg" ->
                 IF cb.a \in 1..Len(st1.regs)
                 THEN Unregister([st1 EXCEPT !.regs[cb.a].ncalls = @ + 1], cb.a)
                 ELSE st1
          [] cb.k = "reg" -> Register(st1, cb.a, NoopCb, "user")

\* mutant of Dispatch: every listener attached when the dispatch starts is
\* called, one removed meanwhile too
Dispatch_IgnoresRemoval(st, s, q) ==
    IF q = <<>> THEN st
    ELSE Dispatch(
             Callback([st EXCEPT !.srcs[s].listeners = Remove(@, Head(q))],
                      Head(q)),
             s, Tail(q))

\* mutant of Dispatch: the dispatch ends after the first listener it calls
Dispatch_StopAfterFirst(st, s, q) ==
    IF q = <<>> THEN st
    ELSE LET l == Head(q)
         IN  IF ~Contains(st.srcs[s].listeners, l)
             THEN Dispatch(st, s, Tail(q))
             ELSE Callback([st EXCEPT !.srcs[s].listeners = Remove(@, l)], l)

\* firing 'abort' at the signal: the listeners attached when the dispatch
\* starts, in the order they were added; one removed meanwhile is skipped and
\* a { once: true } listener is removed before it is called
Dispatch(st, s, q) ==
    IF q = <<>> THEN st
    ELSE LET l == Head(q)
         IN  IF ~Contains(st.srcs[s].listeners, l)
             THEN Dispatch(st, s, Tail(q))
             ELSE Dispatch(
                      Callback([st EXCEPT !.srcs[s].listeners = Remove(@, l)], l),
                      s, Tail(q))

\* the reason the platform stores for abort(reason)
StoredReason(r) == IF r = Undefined THEN AbortErr ELSE r

\* history: the reason of the first abort(reason) that reaches signal s
NoteFirst(st, s, r) ==
    [st EXCEPT !.srcs[s].first = IF @ = Undefined THEN StoredReason(r) ELSE @]

\* mutant of NativeAbort: an aborted signal is aborted again
NativeAbort_NoGuard(st, s, r) ==
    Dispatch(
        [NoteFirst(st, s, r) EXCEPT !.srcs[s].aborted = TRUE,
                                    !.srcs[s].reason = StoredReason(r)],
        s, st.srcs[s].listeners)

\* mutant of NativeAbort: the listeners are called last one first
NativeAbort_Reversed(st, s, r) ==
    IF st.srcs[s].aborted THEN NoteFirst(st, s, r)
    ELSE LET q == st.srcs[s].listeners
         IN  Dispatch(
                 [NoteFirst(st, s, r) EXCEPT !.srcs[s].aborted = TRUE,
                                             !.srcs[s].reason = StoredReason(r)],
                 s, [i \in 1..Len(q) |-> q[Len(q) + 1 - i]])

\* mutant of NativeAbort: the listeners are called before the signal is
\* marked aborted and given its reason
NativeAbort_FlagAfter(st, s, r) ==
    IF st.srcs[s].aborted THEN NoteFirst(st, s, r)
    ELSE LET st1 == Dispatch(NoteFirst(st, s, r), s, st.srcs[s].listeners)
         IN  [st1 EXCEPT !.srcs[s].aborted = TRUE,
                         !.srcs[s].reason = StoredReason(r)]

\* AbortController.abort(reason) of the platform: one-shot
NativeAbort(st, s, r) ==
    IF st.srcs[s].aborted THEN NoteFirst(st, s, r)
    ELSE Dispatch(
             [NoteFirst(st, s, r) EXCEPT !.srcs[s].aborted = TRUE,
                                         !.srcs[s].reason = StoredReason(r)],
             s, st.srcs[s].listeners)

\* ---------------------------------------------------- EnhancedAbortController
\* timeoutId while undefined
NoTimer == <<0, 0, 0>>

\* history: atDispose before dispose() is called
NoSnap == [src |-> 0, aborted |-> FALSE]

\* mutant of ClearTimeout: the handle is forgotten, the timer stays pending
ClearTimeout_LeavesTimer(st, c) ==
    [st EXCEPT !.ctls[c].timeoutId = NoTimer]

\* private clearTimeout()
ClearTimeout(st, c) ==
    IF st.ctls[c].timeoutId # NoTimer
    THEN [NativeClearTimeout(st, st.ctls[c].timeoutId)
             EXCEPT !.ctls[c].timeoutId = NoTimer]
    ELSE st

\* constructor
NewController(st) ==
    LET st1 == NewSource(st)
    IN  [st1 EXCEPT !.ctls = Append(@, [src |-> Len(st1.srcs),
                                         signal |-> Len(st1.srcs),
                                         timeoutId |-> NoTimer,
                                         disposed |-> FALSE, atDispose |-> NoSnap,
                                         dropped |-> {}, hadTimer |-> FALSE,
                                         replaced |-> <<>>, via |-> 0,
                                         resetTimer |-> FALSE,
                                         atReset |-> {}])]

\* mutant of ControllerAbort: the listeners stay attached after they have run
\* and every abort() fires them
ControllerAbort_FiresAgain(st, c, r) ==
    IF st.ctls[c].disposed THEN st
    ELSE LET s == st.ctls[c].src
             attached == SelectSeq([i \in 1..Len(st.regs) |-> i],
                             LAMBDA q : /\ st.regs[q].sig = s
                                        /\ st.regs[q].kind = "listener"
                                        /\ ~st.regs[q].disposed)
         IN  NativeAbort_NoGuard(
                 [ClearTimeout(st, c) EXCEPT !.srcs[s].listeners = attached],
                 s, r)

\* mutant of ControllerAbort: clearTimeout() is missing
ControllerAbort_KeepsTimer(st, c, r) ==
    IF st.ctls[c].disposed THEN st
    ELSE NativeAbort(st, st.ctls[c].src, r)

\* mutant of ControllerAbort: the disposed check is missing
ControllerAbort_NoDisposedCheck(st, c, r) ==
    NativeAbort(ClearTimeout(st, c), st.ctls[c].src, r)

\* abort(reason?)
ControllerAbort(st, c, r) ==
    IF st.ctls[c].disposed THEN st
    ELSE NativeAbort(ClearTimeout(st, c), st.ctls[c].src, r)

\* mutant of AbortAfter: the timer of an earlier call is not cancelled
AbortAfter_NoClear(st, c, ms) ==
    IF st.ctls[c].disposed THEN st
    ELSE LET id == FreshTimerId(st, c, ms)
         IN  [st EXCEPT !.timers = @ \cup {id}, !.ctls[c].timeoutId = id]

\* mutant of AbortAfter: the disposed check is missing
AbortAfter_NoDisposedCheck(st, c, ms) ==
    LET st1 == ClearTimeout(st, c)
        id == FreshTimerId(st1, c, ms)
    IN  [st1 EXCEPT !.timers = @ \cup {id}, !.ctls[c].timeoutId = id]

\* abortAfter(ms)
AbortAfter(st, c, ms) ==
    IF st.ctls[c].disposed THEN st
    ELSE LET st1 == ClearTimeout(st, c)
             id == FreshTimerId(st1, c, ms)
         IN  [st1 EXCEPT !.timers = @ \cup {id}, !.ctls[c].timeoutId = id]

\* TimeSpan.milliseconds
Milliseconds(ts) == ts.ms

\* abortAfterTimeSpan(timeSpan)
AbortAfterTimeSpan(st, c, ts) == AbortAfter(st, c, Milliseconds(ts))

\* mutant of ControllerDispose: dispose() aborts the controller as well
ControllerDispose_Aborts(st, c) ==
    IF st.ctls[c].disposed THEN st
    ELSE NativeAbort(ClearTimeout([st EXCEPT !.ctls[c].disposed = TRUE], c),
                     st.ctls[c].src, Undefined)

\* mutant of ControllerDispose: dispose() calls abort() before it sets the flag
ControllerDispose_AbortsFirst(st, c) ==
    IF st.ctls[c].disposed THEN st
    ELSE [ControllerAbort(st, c, Undefined) EXCEPT !.ctls[c].disposed = TRUE]

\* dispose()
ControllerDispose(st, c) ==
    IF st.ctls[c].disposed THEN st
    ELSE ClearTimeout([st EXCEPT !.ctls[c].disposed = TRUE], c)

\* mutant of TryReset: the signal is reset in place
TryReset_InPlace(st, c) ==
    IF st.ctls[c].disposed THEN st
    ELSE [ClearTimeout(st, c) EXCEPT !.srcs[st.ctls[c].src].aborted = FALSE,
                                     !.srcs[st.ctls[c].src].reason = Undefined,
                                     !.srcs[st.ctls[c].src].first = Undefined]

\* mutant of TryReset: the disposed check is missing
TryReset_IgnoresDisposed(st, c) ==
    LET st1 == NewSource(ClearTimeout(st, c))
    IN  [st1 EXCEPT !.ctls[c].src = Len(st1.srcs),
                    !.ctls[c].signal = Len(st1.srcs)]

\* mutant of TryReset: the listeners of the old signal move to the new one
TryReset_TransfersListeners(st, c) ==
    IF st.ctls[c].disposed THEN st
    ELSE LET st1 == NewSource(ClearTimeout(st, c))
             old == st.ctls[c].src
         IN  [st1 EXCEPT !.ctls[c].src = Len(st1.srcs),
                         !.ctls[c].signal = Len(st1.srcs),
                         !.srcs[Len(st1.srcs)].listeners = st.srcs[old].listeners,
                         !.srcs[old].listeners = <<>>]

\* mutant of TryReset: clearTimeout() is missing
TryReset_KeepsTimer(st, c) ==
    IF st.ctls[c].disposed THEN st
    ELSE LET st1 == NewSource(st)
         IN  [st1 EXCEPT !.ctls[c].src = Len(st1.srcs),
                         !.ctls[c].signal = Len(st1.srcs)]

\* mutant of TryReset: the controller is replaced, the EnhancedAbortSignal
\* handed out by the signal getter is not
TryReset_KeepsSignal(st, c) ==
    IF st.ctls[c].disposed THEN st
    ELSE LET st1 == NewSource(ClearTimeout(st, c))
         IN  [st1 EXCEPT !.ctls[c].src = Len(st1.srcs)]

\* tryReset(): the state after the call
TryReset(st, c) ==
    IF st.ctls[c].disposed THEN st
    ELSE LET st1 == NewSource(ClearTimeout(st, c))
         IN  [st1 EXCEPT !.ctls[c].src = Len(st1.srcs),
                         !.ctls[c].signal = Len(st1.srcs)]

\* tryReset(): the value returned
TryResetResult(st, c) == ~st.ctls[c].disposed

\* the getters isAborted, reason, isDisposed
IsAborted(st, c) == st.srcs[st.ctls[c].src].aborted

Reason(st, c) == st.srcs[st.ctls[c].src].reason

IsDisposed(st, c) == st.ctls[c].disposed

\* --------------------------------------------------------- AbortRegistration
\* mutant of NewRegistration: the registration starts out disposed
NewRegistration_Disposed(st, s, cb, kind, owner) ==
    [st EXCEPT !.regs = Append(@, [sig |-> s, cb |-> cb, kind |-> kind,
                                    own |-> owner, disposed |-> TRUE,
                                    hasCb |-> TRUE, removed |-> 0,
                                    ncalls |-> 0, early |-> FALSE,
                                    seen |-> <<>>, ahead |-> FALSE])]

\* new AbortRegistration(unregisterCallback) for callback cb on signal s;
\* kind "listener": the removal action removes the listener;
\* kind "immediate": the removal action is () => {}
NewRegistration(st, s, cb, kind, owner) ==
    [st EXCEPT !.regs = Append(@, [sig |-> s, cb |-> cb, kind |-> kind,
                                    own |-> owner, disposed |-> FALSE,
                                    hasCb |-> TRUE, removed |-> 0,
                                    ncalls |-> 0, early |-> FALSE,
                                    seen |-> <<>>, ahead |-> FALSE])]

\* history: the removal action of r runs with the listener attached and the
\* signal not aborted, that is before the signal fires
Ahead(st, r) ==
    /\ Contains(st.srcs[st.regs[r].sig].listeners, r)
    /\ ~st.srcs[st.regs[r].sig].aborted

\* mutant of RemovalAction: the listeners are told apart by the callback
\* they were registered with, every listener with that callback goes
RemovalAction_SameCallback(st, r) ==
    LET st1 == [st EXCEPT !.regs[r].removed = @ + 1,
                          !.regs[r].early =
                              @ \/ Contains(st.srcs[st.regs[r].sig].listeners, r),
                          !.regs[r].ahead = @ \/ Ahead(st, r)]
    IN  IF st.regs[r].kind = "listener"
        THEN [st1 EXCEPT !.srcs[st.regs[r].sig].listeners =
                 SelectSeq(@, LAMBDA l : st.regs[l].cb # st.regs[r].cb)]
        ELSE st1

\* mutant of RemovalAction: the listener stays attached
RemovalAction_KeepsListener(st, r) ==
    [st EXCEPT !.regs[r].removed = @ + 1,
               !.regs[r].early =
                   @ \/ Contains(st.srcs[st.regs[r].sig].listeners, r),
               !.regs[r].ahead = @ \/ Ahead(st, r)]

\* the unregisterCallback: removeEventListener('abort', listener), or nothing;
\* history: removed counts its invocations, early tells whether the listener
\* was still attached when it ran, ahead whether that was before the signal
\* fired
RemovalAction(st, r) ==
    LET st1 == [st EXCEPT !.regs[r].removed = @ + 1,
                          !.regs[r].early =
                              @ \/ Contains(st.srcs[st.regs[r].sig].listeners, r),
                          !.regs[r].ahead = @ \/ Ahead(st, r)]
    IN  IF st.regs[r].kind = "listener"
        THEN [st1 EXCEPT !.srcs[st.regs[r].sig].listeners = Remove(@, r)]
        ELSE st1

\* mutant of Unregister: the removal action runs on every call
Unregister_NoGuard(st, r) ==
    [RemovalAction(st, r) EXCEPT !.regs[r].hasCb = FALSE,
                                 !.regs[r].disposed = TRUE]

\* unregister()
Unregister(st, r) ==
    IF ~st.regs[r].disposed /\ st.regs[r].hasCb
    THEN [RemovalAction(st, r) EXCEPT !.regs[r].hasCb = FALSE,
                                      !.regs[r].disposed = TRUE]
    ELSE st

\* dispose()
RegistrationDispose(st, r) == Unregister(st, r)

\* ------------------------------------------------------- EnhancedAbortSignal
\* mutant of Register: the callback is invoked at once and attached as well
Register_Eager(st, s, cb, owner) ==
    IF st.srcs[s].aborted
    THEN LET st1 == NewRegistration(st, s, cb, "immediate", owner)
         IN  Callback(st1, Len(st1.regs))
    ELSE LET st1 == NewRegistration(st, s, cb, "listener", owner)
         IN  Callback([st1 EXCEPT !.srcs[s].listeners = Append(@, Len(st1.regs))],
                      Len(st1.regs))

\* mutant of Register: on an aborted signal the callback is not invoked
Register_NoImmediate(st, s, cb, owner) ==
    IF st.srcs[s].aborted
    THEN NewRegistration(st, s, cb, "immediate", owner)
    ELSE LET st1 == NewRegistration(st, s, cb, "listener", owner)
         IN  [st1 EXCEPT !.srcs[s].listeners = Append(@, Len(st1.regs))]

\* register(callback)
Register(st, s, cb, owner) ==
    IF st.srcs[s].aborted
    THEN LET st1 == NewRegistration(st, s, cb, "immediate", owner)
         IN  Callback(st1, Len(st1.regs))
    ELSE LET st1 == NewRegistration(st, s, cb, "listener", owner)
         IN  [st1 EXCEPT !.srcs[s].listeners = Append(@, Len(st1.regs))]

\* mutant of WhenAborted: the isAborted check is missing
WhenAborted_AlwaysRegisters(st, s) ==
    LET p == Len(st.promises) + 1
        st1 == [st EXCEPT !.promises =
                   Append(@, [sig |-> s, state |-> "pending",
                              reg |-> Len(st.regs) + 1,
                              atRead |-> st.srcs[s].aborted])]
        st2 == Register(st1, s, ResolveCb(p), "when")
    IN  [st2 EXCEPT !.microtasks = Append(@, Len(st2.regs))]

\* the whenAborted getter; history: atRead tells whether the signal was
\* aborted when the getter was read
WhenAborted(st, s) ==
    IF st.srcs[s].aborted
    THEN [st EXCEPT !.promises = Append(@, [sig |-> s, state |-> "resolved",
                                            reg |-> 0, atRead |-> TRUE])]
    ELSE LET p == Len(st.promises) + 1
             st1 == [st EXCEPT !.promises =
                        Append(@, [sig |-> s, state |-> "pending",
                                   reg |-> Len(st.regs) + 1,
                                   atRead |-> FALSE])]
             st2 == Register(st1, s, ResolveCb(p), "when")
         IN  [st2 EXCEPT !.microtasks = Append(@, Len(st2.regs))]

\* ------------------------------------------------------------------ linking
RECURSIVE RegisterAll(_, _, _)
RECURSIVE RegisterAll_WithReason(_, _, _)
RECURSIVE RegisterAll_NoImmediate(_, _, _)
RECURSIVE RegisterAll_TargetsSignal(_, _, _)
RECURSIVE RegisterAny(_, _, _)
RECURSIVE RegisterAny_NoImmediate(_, _, _)
RECURSIVE RegisterAny_CallsNow(_, _, _)

\* mutant of RegisterAll: the callback aborts the platform controller the
\* linked controller holds when the link is made
RegisterAll_TargetsSignal(st, sigs, c) ==
    IF sigs = <<>> THEN st
    ELSE RegisterAll_TargetsSignal(
             Register(st, Head(sigs), NativeAbortCb(st.ctls[c].src), "link"),
             Tail(sigs), c)

\* mutant of RegisterAll: the callback passes a reason of its own to abort
RegisterAll_WithReason(st, sigs, c) ==
    IF sigs = <<>> THEN st
    ELSE RegisterAll_WithReason(
             Register(st, Head(sigs), AbortCb(c, ListenerReason), "link"),
             Tail(sigs), c)

\* mutant of RegisterAll: a signal that is aborted already gets a listener,
\* which never runs
RegisterAll_NoImmediate(st, sigs, c) ==
    IF sigs = <<>> THEN st
    ELSE RegisterAll_NoImmediate(
             Register_NoImmediate(st, Head(sigs), AbortCb(c, Undefined), "link"),
             Tail(sigs), c)

\* for (const signal of signals) signal.register(() => controller.abort())
RegisterAll(st, sigs, c) ==
    IF sigs = <<>> THEN st
    ELSE RegisterAll(Register(st, Head(sigs), AbortCb(c, Undefined), "link"),
                     Tail(sigs), c)

\* static linkSignals(...signals)
LinkSignals(st, sigs) ==
    LET st1 == NewController(st)
    IN  RegisterAll(st1, sigs, Len(st1.ctls))

\* static createLinkedController(...signals)
CreateLinkedController(st, sigs) == LinkSignals(st, sigs)

\* mutant of RegisterAny: register(controller.abort()) in place of
\* register(() => controller.abort()), the abort runs at once
RegisterAny_CallsNow(st, sigs, s) ==
    IF sigs = <<>> THEN st
    ELSE RegisterAny_CallsNow(
             Register(NativeAbort(st, s, Undefined), Head(sigs),
                      NativeAbortCb(s), "any"),
             Tail(sigs), s)

\* mutant of RegisterAny: a signal that is aborted already gets a listener,
\* which never runs
RegisterAny_NoImmediate(st, sigs, s) ==
    IF sigs = <<>> THEN st
    ELSE RegisterAny_NoImmediate(
             Register_NoImmediate(st, Head(sigs), NativeAbortCb(s), "any"),
             Tail(sigs), s)

\* EnhancedAbortSignal.any: the loop over the signals, s the signal of the
\* new platform controller
RegisterAny(st, sigs, s) ==
    IF sigs = <<>> THEN st
    ELSE RegisterAny(Register(st, Head(sigs), NativeAbortCb(s), "any"),
                     Tail(sigs), s)

\* mutant of SignalAny: the new signal starts out aborted when no input is
\* found that is not aborted, which an empty list satisfies
SignalAny_EveryAborted(st, sigs) ==
    LET st1 == NewSource(st)
        s == Len(st1.srcs)
        st2 == RegisterAny(st1, sigs, s)
    IN  IF \A i \in 1..Len(sigs) : st.srcs[sigs[i]].aborted
        THEN NativeAbort(st2, s, Undefined)
        ELSE st2

\* static EnhancedAbortSignal.any(signals): the state after the call; the
\* signal returned wraps the last signal of srcs
SignalAny(st, sigs) ==
    LET st1 == NewSource(st)
    IN  RegisterAny(st1, sigs, Len(st1.srcs))

\* ------------------------------------------- the other static factories
\* mutant of SignalNone: _canBeAborted keeps its initial value
SignalNone_CanAbort(st) == NewSource(st)

\* static get none: a signal around a platform controller nobody else holds,
\* with _canBeAborted = false
SignalNone(st) ==
    LET st1 == NewSource(st)
    IN  [st1 EXCEPT !.srcs[Len(st1.srcs)].canBeAborted = FALSE]

\* mutant of SignalAborted: controller.abort() is missing
SignalAborted_NotAborted(st) == NewSource(st)

\* static get aborted: controller.abort() before the signal is wrapped
SignalAborted(st) ==
    LET st1 == NewSource(st)
    IN  NativeAbort(st1, Len(st1.srcs), Undefined)

\* the timer of EnhancedAbortSignal.timeout for signal s; it belongs to no
\* EnhancedAbortController
SignalTimer(s, ms) == <<0, s, ms>>

\* mutant of SignalTimeout: setTimeout is missing
SignalTimeout_NoTimer(st, ms) == NewSource(st)

\* static EnhancedAbortSignal.timeout(ms):
\* setTimeout(() => controller.abort(), ms) on a new platform controller
SignalTimeout(st, ms) ==
    LET st1 == NewSource(st)
    IN  [st1 EXCEPT !.timers = @ \cup {SignalTimer(Len(st1.srcs), ms)}]

\* mutant of ControllerTimeout: controller.abortAfter(ms) is missing
ControllerTimeout_NoAbortAfter(st, ms) == NewController(st)

\* static EnhancedAbortController.timeout(ms)
ControllerTimeout(st, ms) ==
    LET st1 == NewController(st)
    IN  AbortAfter(st1, Len(st1.ctls), ms)

\* --------------------------------------------------------- throwIfAborted
\* AbortError.ts: the message an AbortError gets when none is given
DefaultMessage == "The operation was aborted."

\* new AbortError(message)
NewAbortError(message) ==
    [name |-> "AbortError",
     message |-> IF message = Undefined THEN DefaultMessage ELSE message]

\* mutant of ThrowIfAborted: throw new AbortError()
ThrowIfAborted_IgnoresMessage(st, s, customMessage) ==
    IF st.srcs[s].aborted
    THEN [st EXCEPT !.thrown = [sig |-> s, arg |-> customMessage,
                                name |-> NewAbortError(Undefined).name,
                                message |-> NewAbortError(Undefined).message]]
    ELSE [st EXCEPT !.thrown = [sig |-> s, arg |-> customMessage,
                                name |-> "", message |-> ""]]

\* throwIfAborted(customMessage): thrown tells what the call did, the error
\* it raised or, with name "", that it returned
ThrowIfAborted(st, s, customMessage) ==
    IF st.srcs[s].aborted
    THEN [st EXCEPT !.thrown = [sig |-> s, arg |-> customMessage,
                                name |-> NewAbortError(customMessage).name,
                                message |-> NewAbortError(customMessage).message]]
    ELSE [st EXCEPT !.thrown = [sig |-> s, arg |-> customMessage,
                                name |-> "", message |-> ""]]

\* ------------------------------------------- the getters of a signal
\* a signal is named by the platform signal it wraps
SignalIsAborted(st, s) == st.srcs[s].aborted

SignalReason(st, s) == st.srcs[s].reason

CanBeAborted(st, s) == st.srcs[s].canBeAborted # FALSE

\* ------------------------------------------------------------------ actions
Init ==
    /\ srcs = <<>>
    /\ ctls = <<>>
    /\ regs = <<>>
    /\ timers = {}
    /\ promises = <<>>
    /\ microtasks = <<>>
    /\ thrown = NoThrow

\* room for n more objects
Room(n) == Len(srcs) + Len(regs) + Len(promises) + n <= MaxHeap

Ctls == 1..Len(ctls)

Srcs == 1..Len(srcs)

Regs == 1..Len(regs)

\* the controllers that own or owned signal s
Owners(s) == {c \in Ctls : ctls[c].src = s}

\* callbacks a caller hands to signal s: one that only takes note, and one
\* that calls abort(reason) on the controller of the signal
UserCallbacks(s) == {NoopCb} \cup {AbortCb(c, ListenerReason) : c \in Owners(s)}

\* argument lists a caller hands to linkSignals
SignalLists ==
    {<<>>} \cup {<<s>> : s \in Srcs} \cup {<<s, t>> : s, t \in Srcs}

ConstructAct ==
    /\ Room(1)
    /\ Commit(NewController(Cur))

AbortAct(c, r) ==
    /\ Commit(ControllerAbort(Cur, c, r))

\* history: the delays <<d1, d2>> of the first abortAfter(d2) call, d1 < d2,
\* made while the timer of abortAfter(d1) was pending
NoteReplace(st, c, ms) ==
    IF /\ ~ctls[c].disposed /\ ctls[c].timeoutId \in timers
       /\ ctls[c].timeoutId[3] < ms /\ ctls[c].replaced = <<>>
    THEN [st EXCEPT !.ctls[c].replaced = <<ctls[c].timeoutId[3], ms>>]
    ELSE st

AbortAfterAct(c, ms) ==
    /\ Cardinality({t[1] : t \in timers} \ {c}) < MaxTimers
    /\ Commit(AbortAfter(Cur, c, ms))

AbortAfterTimeSpanAct(c, ms) ==
    /\ Cardinality({t[1] : t \in timers} \ {c}) < MaxTimers
    /\ Commit(AbortAfterTimeSpan(Cur, c, [ms |-> ms]))

\* history: what the first dispose() call found
NoteDispose(st, c) ==
    [st EXCEPT !.ctls[c].atDispose =
        IF @ = NoSnap
        THEN [src |-> ctls[c].src, aborted |-> srcs[ctls[c].src].aborted]
        ELSE @]

DisposeAct(c) ==
    /\ Commit(NoteDispose(ControllerDispose(Cur, c), c))

\* history: the signal a successful tryReset() discards, and whether it was
\* aborted then
NoteReset(st, c) ==
    IF ctls[c].disposed THEN st
    ELSE [st EXCEPT !.ctls[c].dropped =
             @ \cup {[src |-> ctls[c].src,
                      aborted |-> srcs[ctls[c].src].aborted]}]

TryResetAct(c) ==
    /\ ctls[c].disposed \/ Room(1)
    /\ Commit(NoteReset(TryReset(Cur, c), c))

RegisterAct(s, cb) ==
    /\ Room(1)
    /\ Commit(Register(Cur, s, cb, "user"))

UnregisterAct(r) ==
    /\ regs[r].own = "user"
    /\ regs[r].ncalls < MaxUnregCalls
    /\ Commit(Unregister([Cur EXCEPT !.regs[r].ncalls = @ + 1], r))

RegistrationDisposeAct(r) ==
    /\ regs[r].own = "user"
    /\ regs[r].ncalls < MaxUnregCalls
    /\ Commit(RegistrationDispose([Cur EXCEPT !.regs[r].ncalls = @ + 1], r))

WhenAbortedAct(s) ==
    /\ Room(IF srcs[s].aborted THEN 1 ELSE 2)
    /\ Commit(WhenAborted(Cur, s))

\* Promise.resolve().then(() => registration.unregister())
MicrotaskAct ==
    /\ microtasks # <<>>
    /\ Commit(Unregister([Cur EXCEPT !.microtasks = Tail(@)], Head(microtasks)))

\* setTimeout(() => this.abort(), ms) comes due; timers run between tasks,
\* with the microtask queue drained
TimerAct(t) ==
    /\ t[1] \in Ctls
    /\ microtasks = <<>>
    /\ Commit(ControllerAbort([Cur EXCEPT !.timers = @ \ {t}], t[1], Undefined))

\* history: what made the newest signal, and from which signals
NoteMade(st, kind, sigs) ==
    [st EXCEPT !.srcs[Len(st.srcs)].made = kind,
               !.srcs[Len(st.srcs)].inputs = {sigs[i] : i \in 1..Len(sigs)}]

LinkSignalsAct(sigs) ==
    /\ Room(1 + Len(sigs))
    /\ Commit(LinkSignals(Cur, sigs))

Next ==
    \/ ConstructAct
    \/ \E c \in Ctls, r \in CallerReasons : AbortAct(c, r)
    \/ \E c \in Ctls, ms \in Delays : AbortAfterAct(c, ms)
    \/ \E c \in Ctls, ms \in Delays : AbortAfterTimeSpanAct(c, ms)
    \/ \E c \in Ctls : DisposeAct(c)
    \/ \E c \in Ctls : TryResetAct(c)
    \/ \E s \in Srcs : \E cb \in UserCallbacks(s) : RegisterAct(s, cb)
    \/ \E r \in Regs : UnregisterAct(r)
    \/ \E r \in Regs : RegistrationDisposeAct(r)
    \/ \E s \in Srcs : WhenAbortedAct(s)
    \/ MicrotaskAct
    \/ \E t \in timers : TimerAct(t)
    \/ \E sigs \in SignalLists : LinkSignalsAct(sigs)

Spec == Init /\ [][Next]_vars

\* ------------------------------------------ combined and linked signals
\* the heap before anything is constructed
Empty ==
    [srcs |-> <<>>, ctls |-> <<>>, regs |-> <<>>, timers |-> {},
     promises |-> <<>>, microtasks |-> <<>>, thrown |-> NoThrow]

\* three controllers have been constructed
LinkInit ==
    LET st == NewController(NewController(NewController(Empty)))
    IN  /\ srcs = st.srcs
        /\ ctls = st.ctls
        /\ regs = st.regs
        /\ timers = st.timers
        /\ promises = st.promises
        /\ microtasks = st.microtasks
        /\ thrown = st.thrown

LinkRoom(n) == Len(srcs) + Len(regs) + Len(promises) + n <= MaxLinkHeap

\* reasons the callers of abort(reason) pass here
LinkReasons == {"r1", "r2"}

\* the signals of the three controllers
Inputs == 1..3

\* argument lists handed to any and linkSignals: one to three of these signals
LinkLists ==
    {<<s>> : s \in Inputs}
        \cup {<<s, t>> : s, t \in Inputs}
        \cup {<<s, t, u>> : s, t, u \in Inputs}

Distinct(q) == \A i, j \in 1..Len(q) : i < j => q[i] < q[j]

LinkAct(sigs) ==
    /\ Distinct(sigs)
    /\ LinkRoom(1 + Len(sigs))
    /\ Commit(NoteMade(LinkSignals(Cur, sigs), "link", sigs))

CreateLinkedAct(sigs) ==
    /\ Distinct(sigs)
    /\ LinkRoom(1 + Len(sigs))
    /\ Commit(NoteMade(CreateLinkedController(Cur, sigs), "link", sigs))

AnyAct(sigs) ==
    /\ Distinct(sigs)
    /\ LinkRoom(1 + Len(sigs))
    /\ Commit(NoteMade(SignalAny(Cur, sigs), "any", sigs))

\* a callback is registered on a combined signal or on the signal of a
\* linked controller
LinkRegisterAct(s) ==
    /\ s \notin Inputs
    /\ LinkRoom(1)
    /\ Commit(Register(Cur, s, NoopCb, "user"))

LinkNext ==
    \/ \E c \in Ctls, r \in LinkReasons : AbortAct(c, r)
    \/ \E sigs \in LinkLists : LinkAct(sigs)
    \/ \E sigs \in LinkLists : CreateLinkedAct(sigs)
    \/ \E sigs \in LinkLists : AnyAct(sigs)
    \/ \E s \in Srcs : LinkRegisterAct(s)

LinkSpec == LinkInit /\ [][LinkNext]_vars

\* ------------------------------------------- linked controllers, reset
\* the signals controller c was linked from
LinkedFrom(c) ==
    UNION {srcs[s].inputs : s \in {ctls[c].src} \cup {d.src : d \in ctls[c].dropped}}

\* history: the linked signals that are aborted when a successful tryReset()
\* is called
NoteLinkReset(st, c) ==
    IF ctls[c].disposed THEN st
    ELSE [st EXCEPT !.ctls[c].atReset = {i \in LinkedFrom(c) : srcs[i].aborted}]

\* tryReset() on a linked controller
ResetLinkedAct(c) ==
    /\ c \notin Inputs
    /\ LinkRoom(1)
    /\ Commit(NoteLinkReset(NoteReset(TryReset(Cur, c), c), c))

\* abort(reason) on one of the three controllers
InputAbortAct(c) ==
    /\ c \in Inputs
    /\ AbortAct(c, "r1")

ResetLinkNext ==
    \/ \E c \in Ctls : InputAbortAct(c)
    \/ \E sigs \in LinkLists : LinkAct(sigs)
    \/ \E c \in Ctls : ResetLinkedAct(c)

ResetLinkSpec == LinkInit /\ [][ResetLinkNext]_vars

\* ------------------------------------------------- the static factories
\* messages the callers of throwIfAborted pass
Messages == {Undefined, "m1"}

NoneAct ==
    /\ Room(1)
    /\ Commit(NoteMade(SignalNone(Cur), "none", <<>>))

AbortedAct ==
    /\ Room(1)
    /\ Commit(NoteMade(SignalAborted(Cur), "aborted", <<>>))

SignalTimeoutAct(ms) ==
    /\ Room(1)
    /\ Cardinality({t \in timers : t[1] = 0}) < MaxTimers
    /\ Commit(NoteMade(SignalTimeout(Cur, ms), "timeout", <<>>))

\* setTimeout(() => controller.abort(), ms) of EnhancedAbortSignal.timeout
\* comes due
SignalTimerAct(t) ==
    /\ t[1] = 0
    /\ microtasks = <<>>
    /\ Commit(NativeAbort([Cur EXCEPT !.timers = @ \ {t}], t[2], Undefined))

\* EnhancedAbortSignal.any([])
AnyOfNoneAct ==
    /\ Room(1)
    /\ Commit(NoteMade(SignalAny(Cur, <<>>), "any", <<>>))

\* EnhancedAbortController.linkSignals()
LinkOfNoneAct ==
    /\ Room(1)
    /\ Commit(NoteMade(LinkSignals(Cur, <<>>), "link", <<>>))

ThrowIfAbortedAct(s, customMessage) ==
    /\ Commit(ThrowIfAborted(Cur, s, customMessage))

SignalNext ==
    \/ NoneAct
    \/ AbortedAct
    \/ \E ms \in Delays : SignalTimeoutAct(ms)
    \/ AnyOfNoneAct
    \/ LinkOfNoneAct
    \/ \E c \in Ctls, r \in CallerReasons : AbortAct(c, r)
    \/ \E c \in Ctls, ms \in Delays : AbortAfterAct(c, ms)
    \/ \E s \in Srcs : RegisterAct(s, NoopCb)
    \/ \E s \in Srcs, m \in Messages : ThrowIfAbortedAct(s, m)
    \/ \E t \in timers : TimerAct(t)
    \/ \E t \in timers : SignalTimerAct(t)

SignalSpec == Init /\ [][SignalNext]_vars

\* ------------------------------------------- timers that are left to fire
\* the calls made on a controller come before its abortAfter call or after
\* its timer has fired: while the timer of a controller is pending, abort,
\* abortAfter, dispose and tryReset are not called on it
Quiet(c) == \A t \in timers : t[1] # c

FairRoom(n) == Len(srcs) + Len(regs) + Len(promises) + n <= MaxFairHeap

FairConstructAct ==
    /\ FairRoom(1)
    /\ ConstructAct

ControllerTimeoutAct(ms) ==
    /\ FairRoom(1)
    /\ Cardinality({t[1] : t \in timers}) < MaxTimers
    /\ Commit(NoteMade(ControllerTimeout(Cur, ms), "ctimeout", <<>>))

QuietAbortAct(c, r) ==
    /\ Quiet(c)
    /\ AbortAct(c, r)

QuietAbortAfterAct(c, ms) ==
    /\ Quiet(c)
    /\ AbortAfterAct(c, ms)

QuietDisposeAct(c) ==
    /\ Quiet(c)
    /\ DisposeAct(c)

QuietTryResetAct(c) ==
    /\ Quiet(c)
    /\ ctls[c].disposed \/ FairRoom(1)
    /\ TryResetAct(c)

FairSignalTimeoutAct(ms) ==
    /\ FairRoom(1)
    /\ SignalTimeoutAct(ms)

FairRegisterAct(s) ==
    /\ FairRoom(1)
    /\ RegisterAct(s, NoopCb)

FairNext ==
    \/ FairConstructAct
    \/ \E ms \in Delays : ControllerTimeoutAct(ms)
    \/ \E ms \in Delays : FairSignalTimeoutAct(ms)
    \/ \E c \in Ctls, r \in CallerReasons : QuietAbortAct(c, r)
    \/ \E c \in Ctls, ms \in Delays : QuietAbortAfterAct(c, ms)
    \/ \E c \in Ctls : QuietDisposeAct(c)
    \/ \E c \in Ctls : QuietTryResetAct(c)
    \/ \E s \in Srcs : FairRegisterAct(s)
    \/ \E t \in timers : TimerAct(t)
    \/ \E t \in timers : SignalTimerAct(t)

\* every timer a run can set: <<c, n, ms>> of controller c, <<0, s, ms>> of
\* EnhancedAbortSignal.timeout
TimerIds == (0..MaxFairHeap) \X (1..MaxFairHeap) \X Delays

\* the event loop runs every timer that stays pending: a timer's callback
\* is not passed over for ever
FairSpec ==
    /\ Init
    /\ [][FairNext]_vars
    /\ \A t \in TimerIds :
           WF_vars(t \in timers /\ (TimerAct(t) \/ SignalTimerAct(t)))

\* ------------------------------ listeners that register and unregister
\* one controller has been constructed
NestInit ==
    LET st == NewController(Empty)
    IN  /\ srcs = st.srcs
        /\ ctls = st.ctls
        /\ regs = st.regs
        /\ timers = st.timers
        /\ promises = st.promises
        /\ microtasks = st.microtasks
        /\ thrown = st.thrown

NestRoom(n) == Len(srcs) + Len(regs) + Len(promises) + n <= MaxNestHeap

\* callbacks a caller hands to signal s: the ones of UserCallbacks, one that
\* registers a further callback on s, and one that unregisters a
\* registration made before, the one being made or the next one
NestCallbacks(s) ==
    UserCallbacks(s) \cup {RegisterCb(s)}
        \cup {UnregisterCb(r) : r \in 1..(Len(regs) + 2)}

NestRegisterAct(s, cb) ==
    /\ NestRoom(1)
    /\ Commit(Register(Cur, s, cb, "user"))

\* unregister() called by the caller, once for a registration
NestUnregisterAct(r) ==
    /\ regs[r].ncalls = 0
    /\ UnregisterAct(r)

NestTryResetAct(c) ==
    /\ ctls[c].disposed \/ NestRoom(1)
    /\ Commit(NoteReset(TryReset(Cur, c), c))

NestNext ==
    \/ \E s \in Srcs : \E cb \in NestCallbacks(s) : NestRegisterAct(s, cb)
    \/ \E r \in Regs : NestUnregisterAct(r)
    \/ \E c \in Ctls : AbortAct(c, "r1")
    \/ \E c \in Ctls : AbortAfterAct(c, 0)
    \/ \E t \in timers : TimerAct(t)
    \/ \E c \in Ctls : DisposeAct(c)
    \/ \E c \in Ctls : NestTryResetAct(c)

NestSpec == NestInit /\ [][NestNext]_vars

\* ----------------------------------------------------- the timers, followed
\* two controllers have been constructed
TimerInit ==
    LET st == NewController(NewController(Empty))
    IN  /\ srcs = st.srcs
        /\ ctls = st.ctls
        /\ regs = st.regs
        /\ timers = st.timers
        /\ promises = st.promises
        /\ microtasks = st.microtasks
        /\ thrown = st.thrown

\* abortAfter(ms), with the history of the timer it cancels
TimedAbortAfterAct(c, ms) ==
    /\ Cardinality({t[1] : t \in timers} \ {c}) < MaxTimers
    /\ Commit(NoteReplace(AbortAfter(Cur, c, ms), c, ms))

\* abortAfterTimeSpan(timeSpan), with the history of the timer it cancels
TimedAbortAfterTimeSpanAct(c, ms) ==
    /\ Cardinality({t[1] : t \in timers} \ {c}) < MaxTimers
    /\ Commit(NoteReplace(AbortAfterTimeSpan(Cur, c, [ms |-> ms]), c, ms))

\* history: whether the first dispose() call found a timer pending
NoteTimer(st, c) ==
    IF ctls[c].atDispose = NoSnap
    THEN [st EXCEPT !.ctls[c].hadTimer = ctls[c].timeoutId \in timers]
    ELSE st

\* dispose(), with the history of the timer it cancels
TimedDisposeAct(c) ==
    /\ Commit(NoteTimer(NoteDispose(ControllerDispose(Cur, c), c), c))

\* history: whether a successful tryReset() call found a timer pending
NoteResetTimer(st, c) ==
    IF ctls[c].disposed THEN st
    ELSE [st EXCEPT !.ctls[c].resetTimer = @ \/ ctls[c].timeoutId \in timers]

\* tryReset(), with the history of the timer it cancels
TimedTryResetAct(c) ==
    /\ ctls[c].disposed \/ Room(1)
    /\ Commit(NoteResetTimer(NoteReset(TryReset(Cur, c), c), c))

TimerNext ==
    \/ \E c \in Ctls, r \in CallerReasons : AbortAct(c, r)
    \/ \E c \in Ctls, ms \in Delays : TimedAbortAfterAct(c, ms)
    \/ \E c \in Ctls, ms \in Delays : TimedAbortAfterTimeSpanAct(c, ms)
    \/ \E c \in Ctls : TimedDisposeAct(c)
    \/ \E c \in Ctls : TimedTryResetAct(c)
    \/ \E s \in Srcs : \E cb \in UserCallbacks(s) : RegisterAct(s, cb)
    \/ \E t \in timers : TimerAct(t)

TimerSpec == TimerInit /\ [][TimerNext]_vars

\* ------------------------------------------------------------------- claims
\* how often the callback of registration r has been invoked
Calls(r) == Count(srcs[regs[r].sig].fired, r)

\* C1: once the signal a pending whenAborted promise was read from is
\* aborted, the promise is resolved, whenever the abort comes
C1_WhenAbortedResolves ==
    \A p \in 1..Len(promises) :
        srcs[promises[p].sig].aborted => promises[p].state = "resolved"

\* C2: an abort after the first one changes nothing: the reason of an aborted
\* signal is the one the first abort that reached it gave, and no callback
\* has been invoked twice
C2_SecondAbortNoEffect ==
    \A s \in Srcs :
        /\ srcs[s].aborted => srcs[s].reason = srcs[s].first
        /\ \A r \in Regs : Count(srcs[s].fired, r) <= 1

\* C2 witness: a listener of the first abort has called abort(r2) on its own
\* controller, and the reason is still the first one
C2_Witness ==
    \E r \in Regs :
        /\ regs[r].kind = "listener" /\ regs[r].cb.k = "abort"
        /\ regs[r].own = "user"
        /\ Calls(r) = 1
        /\ ctls[regs[r].cb.a].src = regs[r].sig
        /\ srcs[regs[r].sig].reason # ListenerReason

\* C3: a signal that is aborted stays aborted and keeps its reason, whatever
\* operation comes next
C3_AbortedOnceForGood ==
    [][\A s \in Srcs :
          srcs[s].aborted =>
              /\ s <= Len(srcs')
              /\ srcs'[s].aborted
              /\ srcs'[s].reason = srcs[s].reason]_vars

\* C3 witness: an aborted signal whose controller has since been reset and
\* aborted again with another reason
C3_Witness ==
    \E s \in Srcs, c \in Ctls :
        /\ srcs[s].aborted /\ srcs[s].reason = "r1"
        /\ ctls[c].src > s
        /\ srcs[ctls[c].src].aborted /\ srcs[ctls[c].src].reason = AbortErr
        /\ \A d \in Ctls : ctls[d].src # s

\* the callbacks invoked for signal s that were attached as listeners
FiredListeners(s) ==
    SelectSeq(srcs[s].fired, LAMBDA r : regs[r].kind = "listener")

\* C4: once a signal is aborted, every callback registered on it before and
\* not unregistered while attached has been invoked exactly once, and the
\* invocations came in registration order
C4_AllListenersInOrder ==
    \A s \in Srcs :
        srcs[s].aborted =>
            /\ \A r \in Regs :
                  (regs[r].sig = s /\ regs[r].kind = "listener" /\ ~regs[r].early)
                      => Calls(r) = 1
            /\ \A i, j \in 1..Len(FiredListeners(s)) :
                  i < j => FiredListeners(s)[i] < FiredListeners(s)[j]

\* C4 witness: an aborted signal two of whose listeners have been invoked
C4_Witness ==
    \E s \in Srcs : srcs[s].aborted /\ Len(FiredListeners(s)) >= 2

\* C5: a callback registered on an already aborted signal has been invoked
\* exactly once, from the moment register returns
C5_ImmediateOnce ==
    \A r \in Regs : regs[r].kind = "immediate" => Calls(r) = 1

\* C5 witness: a callback of the caller registered on an aborted signal, and
\* operations on its registration and its controller since
C5_Witness ==
    \E r \in Regs, c \in Ctls :
        /\ regs[r].kind = "immediate" /\ regs[r].own = "user"
        /\ regs[r].disposed
        /\ ctls[c].src = regs[r].sig /\ ctls[c].disposed

\* C6 as stated: the registration register returns for an already aborted
\* signal is disposed
C6_ImmediateAlreadyDisposed ==
    \A r \in Regs : regs[r].kind = "immediate" => regs[r].disposed

\* C6 amended: the registration register returns for an already aborted signal
\* is not disposed until unregister() or dispose() is first called on it; that
\* call sets isDisposed, runs the empty removal action once, and neither
\* detaches a listener nor invokes the callback again
C6_ImmediateDisposedByUnregister ==
    \A r \in Regs :
        (regs[r].kind = "immediate" /\ regs[r].own = "user") =>
            /\ regs[r].disposed = (regs[r].ncalls > 0)
            /\ ~regs[r].early
            /\ Calls(r) = 1

\* C6 witness: both a fresh and an unregistered registration of that kind
C6_Witness ==
    \E r, q \in Regs :
        /\ regs[r].kind = "immediate" /\ regs[r].own = "user"
        /\ regs[q].kind = "immediate" /\ regs[q].own = "user"
        /\ regs[r].ncalls = 0 /\ regs[q].ncalls > 0

\* C7: a callback whose registration was unregistered while its listener was
\* still attached is never invoked
C7_UnregisteredNeverInvoked ==
    \A r \in Regs : regs[r].early => Calls(r) = 0

\* C7 witness: a registration unregistered before its signal was aborted,
\* while another callback registered on the signal has been invoked
C7_Witness ==
    \E r, q \in Regs :
        /\ regs[r].early /\ regs[r].own = "user"
        /\ regs[q].sig = regs[r].sig /\ Calls(q) = 1
        /\ srcs[regs[r].sig].aborted

\* C8: after n >= 1 calls of unregister()/dispose() on a registration the
\* removal action has run exactly once and isDisposed is true; before the
\* first call it has not run and isDisposed is false
C8_RemovalOnce ==
    \A r \in Regs :
        regs[r].own = "user" =>
            /\ regs[r].removed = (IF regs[r].ncalls >= 1 THEN 1 ELSE 0)
            /\ regs[r].disposed = (regs[r].ncalls >= 1)

\* C8 witness: a registration on which unregister()/dispose() was called twice
C8_Witness ==
    \E r \in Regs : regs[r].own = "user" /\ regs[r].ncalls >= 2

\* the timers pending for controller c
TimersOf(c) == {t \in timers : t[1] = c}

C12_DisposeCancelsTimer ==
    \A c \in Ctls :
        (ctls[c].atDispose # NoSnap /\ ctls[c].hadTimer) =>
            /\ TimersOf(c) = {}
            /\ ~ctls[c].atDispose.aborted => ~srcs[ctls[c].atDispose.src].aborted

\* C12 witness: a controller disposed with its timer pending and not aborted,
\* while the timer of another controller is pending
C12_Witness ==
    \E c \in Ctls :
        /\ ctls[c].atDispose # NoSnap /\ ctls[c].hadTimer
        /\ ~ctls[c].atDispose.aborted
        /\ timers # {}

\* C13: after abortAfter(ms) on a controller that is not disposed its only
\* pending timer is the one of this call, with delay ms (the timer of an
\* earlier call is cancelled), and a timer that comes due is the one of the
\* controller's last abortAfter call and leaves the controller aborted
C13_LastCallWins ==
    [][/\ \A c \in Ctls, ms \in Delays :
              (TimedAbortAfterAct(c, ms) /\ ~ctls[c].disposed) =>
                  /\ {t \in timers' : t[1] = c} = {ctls'[c].timeoutId}
                  /\ ctls'[c].timeoutId[3] = ms
       /\ \A t \in timers :
              TimerAct(t) =>
                  /\ t = ctls[t[1]].timeoutId
                  /\ srcs'[ctls'[t[1]].src].aborted]_vars

\* C13 witness: abortAfter(100) has been called while the timer of
\* abortAfter(0) was pending; its timer is the one pending and the controller
\* is not aborted
C13_Witness ==
    \E c \in Ctls :
        /\ ctls[c].replaced = <<0, 100>>
        /\ ctls[c].timeoutId[3] = 100 /\ TimersOf(c) = {ctls[c].timeoutId}
        /\ ctls[c].dropped = {}
        /\ ~IsAborted(Cur, c)

\* C14: every controller has at most one timer pending, the one its timeoutId
\* names, and a disposed controller has none
C14_OneTimer ==
    \A c \in Ctls :
        /\ Cardinality(TimersOf(c)) <= 1
        /\ TimersOf(c) \subseteq {ctls[c].timeoutId}
        /\ ctls[c].disposed => TimersOf(c) = {}

\* C14 witness: a controller that was aborted, reset and has a timer pending,
\* next to a disposed controller
C14_Witness ==
    \E c, d \in Ctls :
        /\ Cardinality(TimersOf(c)) = 1
        /\ \E o \in ctls[c].dropped : o.aborted
        /\ ctls[d].disposed

\* C15: tryReset() on a controller that is not disposed returns true and
\* gives it a new signal, not aborted and without listeners, so isAborted is
\* false; on a disposed controller it returns false and changes nothing
C15_TryReset ==
    [][\A c \in Ctls :
          TryResetAct(c) =>
              IF ctls[c].disposed
              THEN /\ ~TryResetResult(Cur, c)
                   /\ srcs' = srcs /\ ctls' = ctls /\ timers' = timers
              ELSE /\ TryResetResult(Cur, c)
                   /\ ctls'[c].src \notin Srcs
                   /\ ~srcs'[ctls'[c].src].aborted
                   /\ srcs'[ctls'[c].src].reason = Undefined
                   /\ srcs'[ctls'[c].src].listeners = <<>>
                   /\ ~ctls'[c].disposed]_vars

\* C15 witness: a controller reset after it was aborted, not aborted now, next
\* to a disposed controller
C15_Witness ==
    \E c, d \in Ctls :
        /\ \E o \in ctls[c].dropped : o.aborted
        /\ ~IsAborted(Cur, c)
        /\ ctls[d].disposed

\* C16: a signal tryReset() discarded while not aborted is never aborted and
\* no callback registered on it is ever invoked
C16_DroppedNeverFires ==
    \A c \in Ctls :
        \A o \in ctls[c].dropped :
            ~o.aborted =>
                /\ ~srcs[o.src].aborted
                /\ srcs[o.src].fired = <<>>

\* C16 witness: a callback is still attached to the discarded signal while
\* the controller has been aborted on its new signal
C16_Witness ==
    \E c \in Ctls :
        \E o \in ctls[c].dropped :
            /\ ~o.aborted
            /\ srcs[o.src].listeners # <<>>
            /\ IsAborted(Cur, c)

\* the signals any was given to make signal s
AnyInputs(s) ==
    {regs[r].sig : r \in {q \in Regs : regs[q].own = "any" /\ regs[q].cb.a = s}}

\* the signals linkSignals was given to make controller c
LinkInputs(c) ==
    {regs[r].sig : r \in {q \in Regs : regs[q].own = "link" /\ regs[q].cb.a = c}}

\* the registrations of callbacks the caller registered on signal s
UserRegs(s) == {r \in Regs : regs[r].sig = s /\ regs[r].own = "user"}

\* those of the signals S that are aborted
Aborted(S) == {s \in S : srcs[s].aborted}

\* C17: once one or more of the signals given to any are aborted, in whatever
\* order, the combined signal is aborted, each callback registered on it has
\* been invoked exactly once, and no callback of any has run twice
C17_AnyFiresOnce ==
    \A s \in Srcs :
        Aborted(AnyInputs(s)) # {} =>
            /\ srcs[s].aborted
            /\ \A r \in UserRegs(s) : Calls(r) = 1
            /\ \A q \in Regs : (regs[q].own = "any" /\ regs[q].cb.a = s)
                                   => Calls(q) <= 1

\* C17 witness: a signal combined from two or more signals, all of them
\* aborted, with a listener registered before that
C17_Witness ==
    \E s \in Srcs :
        /\ Cardinality(AnyInputs(s)) >= 2
        /\ Aborted(AnyInputs(s)) = AnyInputs(s)
        /\ \E r \in UserRegs(s) : regs[r].kind = "listener" /\ Calls(r) = 1

\* C18: once two or more of the signals given to linkSignals or
\* createLinkedController are aborted, each callback registered on the signal
\* of the linked controller has been invoked exactly once
C18_LinkedFiresOnce ==
    \A c \in Ctls :
        Cardinality(Aborted(LinkInputs(c))) >= 2 =>
            \A r \in UserRegs(ctls[c].src) : Calls(r) = 1

\* C18 witness: a controller linked to three signals, all of them aborted,
\* with a listener registered before that
C18_Witness ==
    \E c \in Ctls :
        /\ Cardinality(Aborted(LinkInputs(c))) = 3
        /\ \E r \in UserRegs(ctls[c].src) :
               regs[r].kind = "listener" /\ Calls(r) = 1

C20_ReasonOfFirst ==
    \A c \in Ctls :
        ctls[c].via # 0 =>
            /\ IsAborted(Cur, c)
            /\ Reason(Cur, c) = srcs[regs[ctls[c].via].sig].reason

\* C20 amended: a controller aborted through a link is aborted with the
\* default reason of abort(), whatever reasons the linked signals were aborted
\* with, and each callback registered on its signal has been invoked once
C20_DefaultReason ==
    \A c \in Ctls :
        ctls[c].via # 0 =>
            /\ IsAborted(Cur, c)
            /\ Reason(Cur, c) = AbortErr
            /\ \A r \in UserRegs(ctls[c].src) : Calls(r) = 1

\* C20 witness: controllers A, B, C linked; A aborted with r1 and C with r2,
\* B not aborted; a listener of the linked controller has run
C20_Witness ==
    \E c \in Ctls :
        /\ LinkInputs(c) = {1, 2, 3}
        /\ Aborted(LinkInputs(c)) = {1, 3}
        /\ srcs[1].reason = "r1" /\ srcs[3].reason = "r2"
        /\ ctls[c].via # 0
        /\ \E r \in UserRegs(ctls[c].src) :
               regs[r].kind = "listener" /\ Calls(r) = 1

\* C21: in every state the signal EnhancedAbortSignal.any returned is aborted
\* exactly when at least one of the signals handed to it is aborted, an
\* input aborted before the call included
C21_AnyAbortedIffInput ==
    \A s \in Srcs :
        srcs[s].made = "any" /\ srcs[s].inputs # {} =>
            (SignalIsAborted(Cur, s)
                <=> \E i \in srcs[s].inputs : SignalIsAborted(Cur, i))

\* a signal combined from two inputs, one aborted before the call and one not
\* aborted at all, is aborted
C21_Witness ==
    \E s \in Srcs :
        /\ srcs[s].made = "any" /\ Cardinality(srcs[s].inputs) = 2
        /\ SignalIsAborted(Cur, s)
        /\ \E i \in srcs[s].inputs : ~SignalIsAborted(Cur, i)
        /\ \E r \in Regs :
            /\ regs[r].own = "any" /\ regs[r].cb.a = s
            /\ regs[r].sig \in srcs[s].inputs /\ regs[r].kind = "immediate"

\* C22: any([]) and linkSignals() are carried out like any other call, the
\* signal of any([]) is never aborted, and the controller of linkSignals()
\* only becomes aborted in a step that is an abort call on it or its own
\* abortAfter timer coming due
C22_EmptyNeverFiresAlone ==
    [][/\ \A s \in 1..Len(srcs') :
              srcs'[s].made = "any" /\ srcs'[s].inputs = {}
                  => ~srcs'[s].aborted
       /\ \A c \in Ctls :
              /\ srcs[ctls[c].src].made = "link"
              /\ srcs[ctls[c].src].inputs = {}
              /\ ~srcs[ctls[c].src].aborted
              /\ srcs'[ctls[c].src].aborted
              => \/ \E r \in CallerReasons : AbortAct(c, r)
                 \/ \E t \in timers : t[1] = c /\ TimerAct(t)]_vars

\* a signal of any([]) with a listener that has not run, and a controller of
\* linkSignals() that an abort call aborted
C22_Witness ==
    /\ \E s \in Srcs :
        /\ srcs[s].made = "any" /\ srcs[s].inputs = {}
        /\ srcs[s].listeners # <<>> /\ srcs[s].fired = <<>>
    /\ \E c \in Ctls :
        /\ srcs[ctls[c].src].made = "link" /\ srcs[ctls[c].src].inputs = {}
        /\ IsAborted(Cur, c) /\ Reason(Cur, c) = "r1"

\* C23: once the signal any returned, or the controller linkSignals returned,
\* has fired, no listener that any or linkSignals registered is attached to
\* an input signal any more
C23_NoLeakedListeners ==
    \A r \in Regs :
        \/ /\ regs[r].own = "any"
           /\ SignalIsAborted(Cur, regs[r].cb.a)
        \/ /\ regs[r].own = "link"
           /\ IsAborted(Cur, regs[r].cb.a)
        => ~Contains(srcs[regs[r].sig].listeners, r)

\* C24: a throwIfAborted(message) call raises an AbortError exactly when the
\* signal is aborted, with the message given or, without one, with
\* 'The operation was aborted.'; on a signal that is not aborted it returns
\* and changes nothing
C24_ThrowIfAborted ==
    [][\A s \in Srcs, m \in Messages :
          ThrowIfAbortedAct(s, m) =>
              /\ thrown'.name = "AbortError" <=> SignalIsAborted(Cur, s)
              /\ SignalIsAborted(Cur, s) =>
                     thrown'.message =
                         IF m = Undefined THEN "The operation was aborted."
                         ELSE m
              /\ ~SignalIsAborted(Cur, s) =>
                     /\ thrown'.name = ""
                     /\ UNCHANGED <<srcs, ctls, regs, timers, promises,
                                    microtasks>>]_vars

\* throwIfAborted('m1') on an aborted signal has raised an AbortError with
\* that message
C24_Witness ==
    /\ thrown.sig \in Srcs
    /\ SignalIsAborted(Cur, thrown.sig)
    /\ thrown.arg = "m1"
    /\ thrown.name = "AbortError" /\ thrown.message = "m1"

\* C25: in every state the isAborted and reason getters of a controller give
\* what the same getters of its signal give; reason is undefined while the
\* controller is not aborted, and once it is aborted reason is the reason
\* of the first abort that reached its signal
C25_ControllerMirrorsSignal ==
    \A c \in Ctls :
        /\ IsAborted(Cur, c) = SignalIsAborted(Cur, ctls[c].signal)
        /\ Reason(Cur, c) = SignalReason(Cur, ctls[c].signal)
        /\ ~IsAborted(Cur, c) => Reason(Cur, c) = Undefined
        /\ IsAborted(Cur, c) =>
               /\ srcs[ctls[c].signal].first # Undefined
               /\ Reason(Cur, c) = srcs[ctls[c].signal].first

\* a controller that was reset and then aborted with reason 'r1', next to
\* the signal it gave up, which is not aborted
C25_Witness ==
    \E c \in Ctls :
        /\ ctls[c].dropped # {}
        /\ \A d \in ctls[c].dropped : ~srcs[d.src].aborted
        /\ ~ctls[c].disposed
        /\ IsAborted(Cur, c) /\ Reason(Cur, c) = "r1"
        /\ SignalIsAborted(Cur, ctls[c].signal)
        /\ SignalReason(Cur, ctls[c].signal) = "r1"

\* C26: the promise whenAborted returns for a signal that is aborted at the
\* read is resolved from the start, and the read makes no registration,
\* attaches no listener and schedules no unregistration for it
C26_WhenAbortedLate ==
    \A p \in 1..Len(promises) :
        promises[p].atRead =>
            /\ promises[p].state = "resolved"
            /\ promises[p].reg = 0
            /\ \A r \in Regs :
                   regs[r].cb = ResolveCb(p) =>
                       /\ regs[r].own # "when"
                       /\ ~Contains(srcs[regs[r].sig].listeners, r)
                       /\ ~Contains(microtasks, r)

\* whenAborted was read on an aborted signal that has never had a listener
C26_Witness ==
    \E p \in 1..Len(promises) :
        /\ promises[p].atRead
        /\ promises[p].state = "resolved"
        /\ SignalIsAborted(Cur, promises[p].sig)
        /\ srcs[promises[p].sig].fired = <<>>
        /\ \A r \in Regs : regs[r].sig # promises[p].sig

\* C27: a signal read from EnhancedAbortSignal.none is never aborted, its
\* canBeAborted is false and no callback registered on it is ever invoked;
\* canBeAborted is true for every other signal, aborted or not
C27_NoneNeverAborts ==
    \A s \in Srcs :
        IF srcs[s].made = "none"
        THEN /\ ~SignalIsAborted(Cur, s)
             /\ ~CanBeAborted(Cur, s)
             /\ srcs[s].fired = <<>>
             /\ \A r \in Regs : regs[r].sig = s => Calls(r) = 0
        ELSE CanBeAborted(Cur, s)

\* a signal from none with a listener attached, next to an aborted signal
C27_Witness ==
    /\ \E s \in Srcs :
        /\ srcs[s].made = "none"
        /\ \E r \in Regs : regs[r].sig = s /\ Contains(srcs[s].listeners, r)
    /\ \E s \in Srcs :
        /\ srcs[s].made # "none"
        /\ SignalIsAborted(Cur, s) /\ CanBeAborted(Cur, s)

\* C28: a signal read from EnhancedAbortSignal.aborted is aborted in every
\* state, a callback registered on it has been invoked once when register
\* returns, and a throwIfAborted call on it raises
C28_AbortedAlways ==
    \A s \in Srcs :
        srcs[s].made = "aborted" =>
            /\ SignalIsAborted(Cur, s)
            /\ \A r \in Regs :
                   regs[r].sig = s =>
                       Calls(r) = 1 /\ ~Contains(srcs[s].listeners, r)
            /\ thrown.sig = s => thrown.name = "AbortError"

\* a signal from aborted on which a callback was registered and
\* throwIfAborted was called
C28_Witness ==
    \E s \in Srcs :
        /\ srcs[s].made = "aborted"
        /\ \E r \in Regs : regs[r].sig = s /\ Calls(r) = 1
        /\ thrown.sig = s /\ thrown.name = "AbortError"

\* C29: the signal EnhancedAbortSignal.timeout(ms) returns is not aborted
\* while its timer is pending and is aborted by nothing else; with every
\* pending timer run in the end, the signal is eventually aborted, and from
\* then on every callback registered on it has been invoked exactly once,
\* none of them before
C29_TimeoutFires ==
    \A s \in 1..MaxFairHeap :
        /\ [](s \in Srcs =>
                (srcs[s].made = "timeout" =>
                    IF SignalIsAborted(Cur, s)
                    THEN /\ \A t \in timers : t[1] = 0 => t[2] # s
                         /\ \A r \in Regs : regs[r].sig = s => Calls(r) = 1
                    ELSE /\ \E ms \in Delays : SignalTimer(s, ms) \in timers
                         /\ \A r \in Regs : regs[r].sig = s => Calls(r) = 0))
        /\ (s \in Srcs /\ srcs[s].made = "timeout")
               ~> (s \in Srcs /\ SignalIsAborted(Cur, s))

\* a signal from timeout(ms) whose timer has fired, with a callback that was
\* registered before and has run once
C29_Witness ==
    \E s \in Srcs :
        /\ srcs[s].made = "timeout" /\ SignalIsAborted(Cur, s)
        /\ SignalReason(Cur, s) = AbortErr
        /\ \E r \in Regs :
            /\ regs[r].sig = s /\ regs[r].kind = "listener"
            /\ srcs[s].fired = <<r>>

\* C30: with every pending timer run in the end and no abort, abortAfter,
\* dispose or tryReset call on the controller in between, a controller that
\* is not disposed and has a timer of abortAfter(ms) pending is eventually
\* aborted, and so is the controller EnhancedAbortController.timeout(ms)
\* returned
C30_DeferredAbortFires ==
    /\ \A c \in 1..MaxFairHeap :
           (c \in Ctls /\ ~ctls[c].disposed /\ ctls[c].timeoutId \in timers)
               ~> (c \in Ctls /\ IsAborted(Cur, c))
    /\ \A s \in 1..MaxFairHeap :
           (s \in Srcs /\ srcs[s].made = "ctimeout")
               ~> (s \in Srcs /\ SignalIsAborted(Cur, s))

\* the controller of timeout(ms) after its timer has fired, with a callback
\* that was registered before and has run
C30_Witness ==
    \E c \in Ctls :
        /\ srcs[ctls[c].src].made = "ctimeout"
        /\ IsAborted(Cur, c) /\ Reason(Cur, c) = AbortErr
        /\ ctls[c].timeoutId = NoTimer /\ timers = {}
        /\ srcs[ctls[c].src].fired # <<>>

\* C31: the listener whenAborted attached for a promise is not removed while
\* that promise is pending
C31_UnregisteredOnlyResolved ==
    \A p \in 1..Len(promises) :
        promises[p].state = "pending" /\ promises[p].reg # 0 =>
            /\ Contains(srcs[promises[p].sig].listeners, promises[p].reg)
            /\ regs[promises[p].reg].removed = 0

\* C34: unregistering a registration while its listener is attached leaves
\* every other listener of the signal in place, one registered with the same
\* callback included: a listener whose own removal action has not run is
\* still attached until the signal fires, and has been invoked exactly once
\* when it has fired
C34_OthersStillInvoked ==
    \A r, q \in Regs :
        /\ r # q /\ regs[r].sig = regs[q].sig
        /\ regs[r].early
        /\ regs[q].kind = "listener" /\ regs[q].removed = 0
        => IF srcs[regs[q].sig].aborted
           THEN Calls(q) = 1
           ELSE Contains(srcs[regs[q].sig].listeners, q) /\ Calls(q) = 0

\* two registrations of the same callback on one signal: the first was
\* unregistered before the signal fired and was not invoked, the second was
\* invoked once
C34_Witness ==
    \E r, q \in Regs :
        /\ r < q /\ regs[r].sig = regs[q].sig /\ regs[r].cb = regs[q].cb
        /\ regs[r].own = "user" /\ regs[q].own = "user"
        /\ regs[r].early /\ Calls(r) = 0
        /\ regs[q].kind = "listener" /\ regs[q].removed = 0
        /\ srcs[regs[q].sig].aborted /\ Calls(q) = 1

\* C36: a registration register returned for a signal that was not aborted
\* is disposed exactly when unregister() or dispose() has been called on it,
\* and its removal action has only run in such a call: the signal firing and
\* invoking the callback changes neither
C36_DisposedOnlyByCall ==
    \A r \in Regs :
        regs[r].kind = "listener" /\ regs[r].own # "when" =>
            /\ regs[r].disposed <=> regs[r].ncalls >= 1
            /\ regs[r].removed >= 1 => regs[r].ncalls >= 1
            /\ regs[r].ncalls = 0 => regs[r].hasCb

\* the callback of a registration has been invoked by the signal firing and
\* the registration is not disposed
C36_Witness ==
    \E r \in Regs :
        /\ regs[r].kind = "listener" /\ regs[r].own = "user"
        /\ srcs[regs[r].sig].aborted /\ Calls(r) = 1
        /\ ~regs[r].disposed /\ regs[r].removed = 0 /\ regs[r].ncalls = 0

\* C37: a callback registered on a signal, be it the signal of a controller,
\* of any or of a linked controller, is only invoked with isAborted of that
\* signal true and its reason set, the reason the signal keeps
C37_AbortedWhenInvoked ==
    \A r \in Regs :
        IF Calls(r) = 0 THEN regs[r].seen = <<>>
        ELSE /\ regs[r].seen = <<TRUE, srcs[regs[r].sig].reason>>
             /\ srcs[regs[r].sig].reason # Undefined

\* the callbacks of any and of linkSignals have been invoked as listeners
\* on the signals of controllers, and a callback of the caller on the signal
\* any returned
C37_Witness ==
    \E r, q, u \in Regs :
        /\ regs[r].own = "any" /\ regs[r].kind = "listener" /\ Calls(r) = 1
        /\ regs[q].own = "user" /\ regs[q].kind = "listener" /\ Calls(q) = 1
        /\ regs[q].sig = regs[r].cb.a
        /\ regs[u].own = "link" /\ regs[u].kind = "listener" /\ Calls(u) = 1
        /\ IsAborted(Cur, regs[u].cb.a)

\* C38: a successful tryReset() leaves the controller with a fresh signal
\* that is not aborted and with no timer: the timer an earlier abortAfter
\* call set is gone, and a timer pending for a controller is always the one
\* its latest abortAfter call set, so no timer from before the reset fires
C38_ResetCancelsTimer ==
    [][\A c \in Ctls :
          /\ TimedTryResetAct(c) /\ ~ctls[c].disposed =>
                 /\ \A t \in timers' : t[1] # c
                 /\ ctls'[c].timeoutId = NoTimer
                 /\ ctls'[c].src # ctls[c].src
                 /\ ~srcs'[ctls'[c].src].aborted
          /\ \A t \in timers' : t[1] = c => t = ctls'[c].timeoutId]_vars

\* a controller was reset while its timer was pending; no timer is left and
\* its fresh signal is not aborted
C38_Witness ==
    \E c \in Ctls :
        /\ ctls[c].resetTimer /\ ~ctls[c].disposed
        /\ timers = {} /\ ctls[c].timeoutId = NoTimer
        /\ ~IsAborted(Cur, c)
        /\ \A d \in ctls[c].dropped : ~srcs[d.src].aborted

\* C40 as stated: a controller whose current signal is aborted has no timer
\* pending
C40_AbortedHoldsNoTimer ==
    \A c \in Ctls : IsAborted(Cur, c) => \A t \in timers : t[1] # c

\* C40 amended: a controller whose current signal is aborted only has a timer
\* pending when abortAfter was called on it after it was aborted: no step
\* that aborts a controller leaves it a timer, and an aborted controller
\* without a timer only gets one in an abortAfter call
C40_TimerOnlyAfterAbort ==
    [][\A c \in Ctls :
          /\ srcs'[ctls'[c].src].aborted
          /\ \E t \in timers' : t[1] = c
          => /\ IsAborted(Cur, c)
             /\ \/ \E t \in timers : t[1] = c
                \/ \E ms \in Delays : TimedAbortAfterAct(c, ms)
                \/ \E ms \in Delays : TimedAbortAfterTimeSpanAct(c, ms)]_vars

\* one controller was aborted and then given a timer by abortAfter, the other
\* was aborted by abort('r1') and has none
C40_Witness ==
    \E c, d \in Ctls :
        /\ IsAborted(Cur, c) /\ ctls[c].timeoutId \in timers
        /\ IsAborted(Cur, d) /\ Reason(Cur, d) = "r1"
        /\ \A t \in timers : t[1] # d

\* C39: the callbacks of linkSignals abort the controller, whatever signal
\* it has by then: a linked controller, reset or not, is aborted exactly
\* when one of the signals it was linked from is aborted that was not
\* aborted yet at its last tryReset()
C39_LinkFollowsController ==
    \A c \in Ctls \ Inputs :
        IsAborted(Cur, c)
            <=> \E i \in LinkedFrom(c) \ ctls[c].atReset : srcs[i].aborted

\* a linked controller was reset after one of its inputs had aborted it, and
\* the abort of another input has aborted its fresh signal
C39_Witness ==
    \E c \in Ctls \ Inputs :
        /\ \E d \in ctls[c].dropped : d.aborted
        /\ ctls[c].atReset # {}
        /\ IsAborted(Cur, c)
        /\ \E i \in LinkedFrom(c) \ ctls[c].atReset : srcs[i].aborted
        /\ srcs[ctls[c].src].made = "new"

\* C32 as stated: the callback of a register call is invoked at most once,
\* and exactly once when the signal has fired unless the registration was
\* unregistered before the fire
C32_OncePerRegister ==
    \A r \in Regs :
        /\ Calls(r) <= 1
        /\ srcs[regs[r].sig].aborted /\ ~regs[r].ahead => Calls(r) = 1

\* C32 amended: the callback of a register call is invoked at most once,
\* and exactly once when the signal has fired unless the registration was
\* unregistered before the fire reached its listener, be it before the fire
\* or by a listener called earlier in it
C32_OncePerTurn ==
    \A r \in Regs :
        /\ Calls(r) <= 1
        /\ srcs[regs[r].sig].aborted /\ ~regs[r].early => Calls(r) = 1

\* a listener has unregistered, while the signal fired, a registration made
\* after its own, whose callback was not invoked
C32_Witness ==
    \E r, q \in Regs :
        /\ r < q /\ regs[r].sig = regs[q].sig
        /\ regs[r].cb = UnregisterCb(q) /\ Calls(r) = 1
        /\ regs[q].early /\ ~regs[q].ahead /\ Calls(q) = 0
        /\ srcs[regs[q].sig].aborted

\* C33 as stated: the callbacks registered on a signal are invoked in the
\* order of the register calls, one registered by a listener while the
\* signal fires included
C33_InvokedInRegisterOrder ==
    \A s \in Srcs :
        \A i, j \in 1..Len(srcs[s].fired) :
            i < j => srcs[s].fired[i] < srcs[s].fired[j]

\* C33 amended: the callbacks registered on a signal before it fires are
\* invoked in the order of the register calls; a callback is only invoked
\* ahead of one registered earlier when it was registered on the aborted
\* signal, by a listener called in the fire, and the earlier one is a
\* listener still waiting for its turn
C33_ListenersInRegisterOrder ==
    \A s \in Srcs :
        \A i, j \in 1..Len(srcs[s].fired) :
            i < j /\ srcs[s].fired[i] > srcs[s].fired[j] =>
                /\ regs[srcs[s].fired[i]].kind = "immediate"
                /\ regs[srcs[s].fired[j]].kind = "listener"
                /\ \E k \in 1..(i - 1) :
                       /\ regs[srcs[s].fired[k]].cb = RegisterCb(s)
                       /\ regs[srcs[s].fired[k]].kind = "listener"
                       /\ srcs[s].fired[k] < srcs[s].fired[j]

\* the first of two listeners has registered a callback while the signal
\* fired: it was invoked between the two
C33_Witness ==
    \E s \in Srcs :
        /\ Len(srcs[s].fired) = 3
        /\ srcs[s].fired[1] < srcs[s].fired[3]
        /\ srcs[s].fired[3] < srcs[s].fired[2]
        /\ regs[srcs[s].fired[1]].cb = RegisterCb(s)
        /\ regs[srcs[s].fired[2]].kind = "immediate"

\* C35: listeners that unregister while the signal fires do no harm: once a
\* signal has fired, each listener has been invoked once, none twice, but
\* for those unregistered while still attached, by the caller before the
\* fire or by a listener called earlier in it, which have not been invoked;
\* a listener that unregisters itself has been invoked and is disposed
C35_ReentrantUnregister ==
    \A r \in Regs :
        regs[r].kind = "listener" /\ srcs[regs[r].sig].aborted =>
            /\ Calls(r) = IF regs[r].early THEN 0 ELSE 1
            /\ ~Contains(srcs[regs[r].sig].listeners, r)
            /\ regs[r].cb = UnregisterCb(r) /\ ~regs[r].early =>
                   regs[r].disposed /\ regs[r].removed = 1

\* a signal has fired on which the first listener unregisters the second
\* and the second unregisters itself: only the first was invoked
C35_Witness ==
    \E r, q \in Regs :
        /\ r < q /\ regs[r].sig = regs[q].sig
        /\ srcs[regs[r].sig].aborted
        /\ regs[r].cb = UnregisterCb(q) /\ regs[q].cb = UnregisterCb(q)
        /\ srcs[regs[r].sig].fired = <<r>>
        /\ regs[q].disposed /\ regs[q].removed = 1

====
